---- MODULE Spec2Model ----
(***************************************************************************)
(* Model of the TiCS GitHub action's review-comment posting                *)
(* (src/github/posting/annotations.ts): the annotation grouper             *)
(* createReviewComments and the purge-then-post protocol of                *)
(* postReviewComments against the pull request's review-comment list.      *)
(*                                                                         *)
(* JavaScript strings are sequences of one-character strings, so that      *)
(* substring, includes, replace and comparison are computed as the code    *)
(* computes them.                                                          *)
(***************************************************************************)
EXTENDS Integers, Sequences, FiniteSets, TLC

(* ------------------------------------------------------------------ *)
(* Bounds of the model                                                  *)
(* ------------------------------------------------------------------ *)
\* longest annotation list handed to the grouper
MaxAnnotations == 3
\* number of calls of the grouper on the same list
MaxCalls == 2
\* number of review comments on the pull request before the first run
MaxExisting == 1
\* number of runs of postReviewComments on the same pull request
MaxRuns == 2

(* ------------------------------------------------------------------ *)
(* JavaScript values and string operations                              *)
(* ------------------------------------------------------------------ *)
\* the value of a missing property / a find() without a match
Undefined == <<"undefined">>

\* printable ASCII in code-unit order (code 32 .. 126); the places of the
\* double quote (34), the backslash (92) and the grave accent (96) are left empty
Ascii ==
  <<" ", "!", "", "#", "$", "%", "&", "'", "(", ")", "*", "+", ",", "-", ".", "/",
    "0", "1", "2", "3", "4", "5", "6", "7", "8", "9", ":", ";", "<", "=", ">", "?",
    "@", "A", "B", "C", "D", "E", "F", "G", "H", "I", "J", "K", "L", "M", "N", "O",
    "P", "Q", "R", "S", "T", "U", "V", "W", "X", "Y", "Z", "[", "", "]", "^", "_",
    "", "a", "b", "c", "d", "e", "f", "g", "h", "i", "j", "k", "l", "m", "n", "o",
    "p", "q", "r", "s", "t", "u", "v", "w", "x", "y", "z", "{", "|", "}", "~">>

\* code unit of a character ("\r" and "\n" lie below the printable range)
CharCode(c) ==
  IF c = "\n" THEN 10
  ELSE IF c = "\r" THEN 13
  ELSE 31 + (CHOOSE i \in 1..Len(Ascii) : Ascii[i] = c)

Min(a, b) == IF a < b THEN a ELSE b
Max(a, b) == IF a > b THEN a ELSE b

\* String.prototype.substring(from, to), 0-based, to exclusive, clamped
Substring(s, from, to) ==
  LET lo == Min(Max(Min(from, to), 0), Len(s))
      hi == Min(Max(Max(from, to), 0), Len(s))
  IN  SubSeq(s, lo + 1, hi)

\* String.prototype.indexOf(c): first 0-based position of c in s, or -1
IndexOf(s, c) ==
  LET hits == {i \in 0..(Len(s) - Len(c)) : SubSeq(s, i + 1, i + Len(c)) = c}
  IN  IF hits = {} THEN -1 ELSE CHOOSE i \in hits : \A j \in hits : i <= j

\* String.prototype.includes(c)
Includes(s, c) == IndexOf(s, c) # -1

\* String.prototype.replace(pattern, replacement) with a string pattern:
\* the first occurrence only
Replace(s, pattern, replacement) ==
  LET i == IndexOf(s, pattern)
  IN  IF i = -1 THEN s
      ELSE SubSeq(s, 1, i) \o replacement \o SubSeq(s, i + Len(pattern) + 1, Len(s))

\* a > b on strings: lexicographic on code units, a proper prefix is smaller
RECURSIVE StrGreater(_, _)
StrGreater(a, b) ==
  IF a = <<>> THEN FALSE
  ELSE IF b = <<>> THEN TRUE
  ELSE IF Head(a) = Head(b) THEN StrGreater(Tail(a), Tail(b))
  ELSE CharCode(Head(a)) > CharCode(Head(b))

Digits == <<"0", "1", "2", "3", "4", "5", "6", "7", "8", "9">>

\* template-literal conversion of a non-negative integer
RECURSIVE NumberToString(_)
NumberToString(n) ==
  IF n < 10 THEN <<Digits[n + 1]>>
  ELSE NumberToString(n \div 10) \o <<Digits[(n % 10) + 1]>>

\* !x of JavaScript for the values find() can return here
Falsy(x) == x = Undefined \/ x = <<>>

\* a[f] of JavaScript on an object: undefined when the property is missing
Field(a, f) == IF f \in DOMAIN a THEN a[f] ELSE Undefined

(* ------------------------------------------------------------------ *)
(* Configuration (src/configuration.ts)                                 *)
(* ------------------------------------------------------------------ *)
projectName == <<"p">>
branchName == <<"b">>

\* HIE://${ticsConfig.projectName}/${ticsConfig.branchName}/
HiePrefix == <<"H", "I", "E", ":", "/", "/">> \o projectName \o <<"/">> \o branchName \o <<"/">>

(* ------------------------------------------------------------------ *)
(* The grouper: createReviewComments                                    *)
(* ------------------------------------------------------------------ *)
\* changedFiles.find(c => annotation.fullPath.includes(c))
FindChangedFile(changedFilesArg, annotation) ==
  LET hits == {i \in 1..Len(changedFilesArg) : Includes(annotation.fullPath, changedFilesArg[i])}
  IN  IF hits = {} THEN Undefined
      ELSE changedFilesArg[CHOOSE i \in hits : \A j \in hits : i <= j]

\* the always-in-scope variant of KeepsAnnotation
KeepsAnnotationAlways(changedFilesArg, annotation) == TRUE

\* line 91: the annotation is kept unless !changedFiles.find(...)
KeepsAnnotation(changedFilesArg, annotation) ==
  ~Falsy(FindChangedFile(changedFilesArg, annotation))

\* the variant of findAnnotationInList that compares msg where line 131
\* compares message
findAnnotationInListByMsg(list, annotation) ==
  LET hits == {i \in 1..Len(list) :
                 /\ list[i].fullPath = annotation.fullPath
                 /\ list[i].type = annotation.type
                 /\ list[i].line = annotation.line
                 /\ list[i].rule = annotation.rule
                 /\ list[i].level = annotation.level
                 /\ list[i].category = annotation.category
                 /\ list[i].msg = annotation.msg}
  IN  IF hits = {} THEN -1 ELSE (CHOOSE i \in hits : \A j \in hits : i <= j) - 1

\* list.findIndex(a => ...): 0-based index of the first match or -1
findAnnotationInList(list, annotation) ==
  LET hits == {i \in 1..Len(list) :
                 /\ list[i].fullPath = annotation.fullPath
                 /\ list[i].type = annotation.type
                 /\ list[i].line = annotation.line
                 /\ list[i].rule = annotation.rule
                 /\ list[i].level = annotation.level
                 /\ list[i].category = annotation.category
                 /\ Field(list[i], "message") = Field(annotation, "message")}
  IN  IF hits = {} THEN -1 ELSE (CHOOSE i \in hits : \A j \in hits : i <= j) - 1

\* One turn of the forEach of lines 90-98, for the element at position i.
\* The objects of the input array are the elements of anns;
\* groupedAnnotations holds references to them, modelled as their positions
\* in anns.  Line 96, annotations[index].count += annotation.count, writes to
\* the input array at the index found in groupedAnnotations.
GroupStep(anns, groupedAnnotations, i, changedFilesArg) ==
  LET annotation == anns[i]
      list == [k \in 1..Len(groupedAnnotations) |-> anns[groupedAnnotations[k]]]
      index == findAnnotationInList(list, annotation)
  IN  IF ~KeepsAnnotation(changedFilesArg, annotation)
        THEN [anns |-> anns, groupedAnnotations |-> groupedAnnotations]
      ELSE IF index = -1
        THEN [anns |-> anns, groupedAnnotations |-> Append(groupedAnnotations, i)]
      ELSE [anns |-> [anns EXCEPT ![index + 1].count = @ + annotation.count],
            groupedAnnotations |-> groupedAnnotations]

\* the forEach of lines 90-98 from position i on (each turn's result is bound
\* by a quantifier, which evaluates it once)
RECURSIVE GroupFrom(_, _, _)
GroupFrom(state, i, changedFilesArg) ==
  IF i > Len(state.anns) THEN state
  ELSE CHOOSE result \in
         {GroupFrom(next, i + 1, changedFilesArg) :
            next \in {GroupStep(state.anns, state.groupedAnnotations, i, changedFilesArg)}} : TRUE

\* the comparator of lines 101-104: negative, zero or positive
Compare(a, b) ==
  IF a.fullPath = b.fullPath THEN a.line - b.line
  ELSE IF StrGreater(a.fullPath, b.fullPath) THEN 1 ELSE -1

\* the variant of SortAnnotations that leaves the list as it is
SortAnnotationsNone(list) == list

\* Array.prototype.sort with the comparator (a stable sort): the element at
\* position i moves behind the elements that compare smaller and the equal
\* ones that stood before it
SortAnnotations(list) ==
  LET rank(i) == 1 + Cardinality({j \in 1..Len(list) :
                                    \/ Compare(list[j], list[i]) < 0
                                    \/ (Compare(list[j], list[i]) = 0 /\ j < i)})
  IN  [k \in 1..Len(list) |-> list[CHOOSE i \in 1..Len(list) : rank(i) = k]]

\* the variant of FormatComment whose body starts with the type
FormatCommentNoMarker(annotation) ==
  [body |-> annotation.type
              \o <<" ", "v", "i", "o", "l", "a", "t", "i", "o", "n", ":", " ">>
              \o annotation.msg \o <<"*", "*", " ", "\r", "\n">>
              \o <<"L", "i", "n", "e", ":", " ">> \o NumberToString(annotation.line),
   path |-> Replace(annotation.fullPath, HiePrefix, <<>>),
   line |-> annotation.line]

\* lines 107-112: one review comment of a grouped annotation
FormatComment(annotation) ==
  LET displayCount ==
        IF annotation.count = 1 THEN <<>>
        ELSE <<"(">> \o NumberToString(annotation.count) \o <<"x", ")", " ">>
  IN  [body |-> <<":", "w", "a", "r", "n", "i", "n", "g", ":", " ", "*", "*", "T", "i", "C", "S", ":", " ">>
                  \o annotation.type
                  \o <<" ", "v", "i", "o", "l", "a", "t", "i", "o", "n", ":", " ">>
                  \o annotation.msg \o <<"*", "*", " ", "\r", "\n">>
                  \o displayCount
                  \o <<"L", "i", "n", "e", ":", " ">> \o NumberToString(annotation.line)
                  \o <<",", " ", "R", "u", "l", "e", ":", " ">> \o annotation.rule
                  \o <<",", " ", "L", "e", "v", "e", "l", ":", " ">> \o annotation.level
                  \o <<",", " ", "C", "a", "t", "e", "g", "o", "r", "y", ":", " ">>
                  \o annotation.category \o <<" ", "\r", "\n">>,
       path |-> Replace(annotation.fullPath, HiePrefix, <<>>),
       line |-> annotation.line]

\* createReviewComments(annotations, changedFiles): the input array after the
\* call, the sorted groupedAnnotations and the returned review comments
\* (folded and sorted are bound by quantifiers, which evaluate them once)
createReviewComments(annotationsArg, changedFilesArg) ==
  LET Sorted(folded) ==
        SortAnnotations([k \in 1..Len(folded.groupedAnnotations) |->
                           folded.anns[folded.groupedAnnotations[k]]])
      Result(folded, sorted) ==
        [annotations |-> folded.anns,
         groupedAnnotations |-> sorted,
         comments |-> [k \in 1..Len(sorted) |-> FormatComment(sorted[k])]]
  IN  CHOOSE result \in
        UNION {{Result(folded, sorted) : sorted \in {Sorted(folded)}} :
                 folded \in {GroupFrom([anns |-> annotationsArg, groupedAnnotations |-> <<>>],
                                        1, changedFilesArg)}} : TRUE

(* ------------------------------------------------------------------ *)
(* Inputs                                                               *)
(* ------------------------------------------------------------------ *)
FileA == <<"a", ".", "t", "s">>
FileB == <<"b", ".", "t", "s">>
FileC == <<"c", ".", "t", "s">>

\* an annotation as the viewer returns it (no property named message)
Annotation(file, line, rule, count, msg) ==
  [fullPath |-> HiePrefix \o file, line |-> line, rule |-> rule,
   level |-> <<"2">>, category |-> <<"C">>, type |-> <<"T">>,
   msg |-> msg, count |-> count]

RuleOne == <<"R", "1">>
RuleTwo == <<"R", "2">>
MsgX == <<"x">>
MsgY == <<"y">>

\* the prefix of the files of a project other than the configured one
OtherProjectPrefix == <<"H", "I", "E", ":", "/", "/", "q", "/">> \o branchName \o <<"/">>

\* the annotations the input lists are drawn from; one is of a file of the
\* other project, whose fullPath line 110 leaves as it is
Annotations ==
  {Annotation(FileA, l, RuleOne, cm[1], cm[2]) : l \in {1, 2}, cm \in {<<1, MsgX>>, <<2, MsgY>>}}
  \cup {Annotation(FileB, 1, RuleOne, cm[1], cm[2]) : cm \in {<<1, MsgX>>, <<2, MsgY>>}}
  \cup {Annotation(FileC, 1, RuleOne, 1, MsgX)}
  \cup {Annotation(FileA, 1, RuleTwo, 1, MsgX)}
  \cup {[Annotation(FileA, 1, RuleOne, 1, MsgX) EXCEPT !.fullPath = OtherProjectPrefix \o FileA]}

AnnotationLists == UNION {[1..n -> Annotations] : n \in 0..MaxAnnotations}

\* the changed-file lists; FileC is never a changed file
ChangedFileLists ==
  {<<>>, <<FileA>>, <<FileB>>, <<FileA, FileB>>, <<<<>>>>, <<<<>>, FileA>>}

\* the head commit of the review of the r-th run: successive runs alternate
\* between two commits
RunCommit(r) == IF r % 2 = 1 THEN "sha1" ELSE "sha2"

\* the inputs of a run of postReviewComments
RunInputs ==
  LET a1 == Annotation(FileA, 1, RuleOne, 1, MsgX)
      a2 == Annotation(FileA, 1, RuleOne, 2, MsgY)
      b1 == Annotation(FileB, 1, RuleOne, 1, MsgX)
      c1 == Annotation(FileC, 1, RuleOne, 1, MsgX)
  IN  {[annotations |-> <<>>, changedFiles |-> <<FileA>>],
       [annotations |-> <<c1, a1, a2>>, changedFiles |-> <<FileA>>],
       [annotations |-> <<b1, a1>>, changedFiles |-> <<FileA, FileB>>]}

\* bodies of the review comments already on the pull request
ExistingBodies ==
  {<<"L", "G", "T", "M">>,
   FormatComment(Annotation(FileA, 1, RuleOne, 1, MsgX)).body,
   <<":", "w", "a", "r", "n", "i", "n", "g", ":", " ", "*", "*", "T", "i", "C", "S">>,
   <<":", "w", "a", "r", "n", "i", "n", "g", ":", " ", "*", "*", "t", "i", "c", "s", ":", " ", "T">>}

(* ------------------------------------------------------------------ *)
(* State                                                                *)
(* ------------------------------------------------------------------ *)
VARIABLES
  annotations,            \* the array passed to postReviewComments / createReviewComments
  changedFiles,           \* the changed files passed with it
  review,                 \* the review passed to postReviewComments
  pc,                     \* where postReviewComments is suspended
  postedReviewComments,   \* the listing awaited at line 12
  comments,               \* the review comments awaited at line 15
  unpostedReviewComments, \* line 16: references to elements of comments
  deleteRequests,         \* deleteReviewComment calls of this run, in call order
  createRequests,         \* createReviewComment calls of this run, one per comment
  requests,               \* every octokit call of this run, in call order
  log,                    \* Logger.Instance calls of this run
  pullRequest,            \* the review comments on the pull request (hosting platform)
  nextId,                 \* the id the platform gives the next created comment
  runs,                   \* runs started so far
  calls,                  \* calls of createReviewComments: input, input after, result
  analysis,               \* the analysis passed to postReview
  qualityGate,            \* the quality gate passed to postReview
  reviewComments,         \* the review comments passed to postReview, or undefined
  reviewCalls             \* createReview calls of postReview, in call order

vars ==
  <<annotations, changedFiles, review, pc, postedReviewComments, comments,
    unpostedReviewComments, deleteRequests, createRequests, requests, log,
    pullRequest, nextId, runs, calls, analysis, qualityGate, reviewComments,
    reviewCalls>>

reviewVars == <<analysis, qualityGate, reviewComments, reviewCalls>>

\* postReview not called
NoReview ==
  /\ analysis = [explorerUrl |-> Undefined]
  /\ qualityGate = [passed |-> FALSE]
  /\ reviewComments = [defined |-> FALSE, postable |-> <<>>, unpostable |-> <<>>]
  /\ reviewCalls = <<>>

runVars ==
  <<review, pc, postedReviewComments, comments, unpostedReviewComments,
    deleteRequests, createRequests, requests, log, pullRequest, nextId, runs>>

\* nothing called yet
Idle ==
  /\ review = [data |-> [commit_id |-> "none"]]
  /\ pc = "idle"
  /\ postedReviewComments = [defined |-> FALSE, list |-> <<>>]
  /\ comments = <<>>
  /\ unpostedReviewComments = <<>>
  /\ deleteRequests = <<>>
  /\ createRequests = <<>>
  /\ requests = <<>>
  /\ log = <<>>
  /\ nextId = 1
  /\ runs = 0
  /\ calls = <<>>

(* ------------------------------------------------------------------ *)
(* The grouper called on its own                                        *)
(* ------------------------------------------------------------------ *)
InitGrouper ==
  /\ annotations \in AnnotationLists
  /\ changedFiles \in ChangedFileLists
  /\ pullRequest = {}
  /\ Idle
  /\ NoReview

\* one call createReviewComments(annotations, changedFiles); the array
\* keeps the writes the call made to its elements
CallGrouper ==
  /\ Len(calls) < MaxCalls
  /\ LET result == createReviewComments(annotations, changedFiles)
     IN  /\ annotations' = result.annotations
         /\ calls' = Append(calls, [before |-> annotations,
                                    changedFiles |-> changedFiles,
                                    after |-> result.annotations,
                                    groupedAnnotations |-> result.groupedAnnotations,
                                    comments |-> result.comments])
  /\ UNCHANGED <<changedFiles, runVars>>
  /\ UNCHANGED reviewVars

NextGrouper == CallGrouper

SpecGrouper == InitGrouper /\ [][NextGrouper]_vars

(* ------------------------------------------------------------------ *)
(* postReviewComments against the hosting platform                      *)
(* ------------------------------------------------------------------ *)
\* the literal of line 66
Marker ==
  <<":", "w", "a", "r", "n", "i", "n", "g", ":", " ", "*", "*", "T", "i", "C", "S", ":">>

\* the end index of substring(0, 17) at line 66
MarkerLength == 17

\* the variant of IsPreviousRunComment that takes every comment
IsPreviousRunCommentAlways(reviewComment) == TRUE

\* the variant of IsPreviousRunComment that takes no comment
IsPreviousRunCommentNever(reviewComment) == FALSE

\* line 66: reviewComment.body.substring(0, 17) === ':warning: **TiCS:'
IsPreviousRunComment(reviewComment) ==
  Substring(reviewComment.body, 0, MarkerLength) = Marker

\* Logger.Instance.<level>(message); the text of a caught error is left out
LogEntry(level, message) == [level |-> level, message |-> message]

\* an octokit call; arg is the comment id of a delete, the position in
\* comments of a create, 0 for the listing
Request(op, arg) == [op |-> op, arg |-> arg]

\* octokit.paginate(listReviewComments): every comment of the pull request,
\* oldest first
RECURSIVE ListReviewComments(_)
ListReviewComments(set) ==
  IF set = {} THEN <<>>
  ELSE LET first == CHOOSE c \in set : \A d \in set : c.id <= d.id
       IN  <<first>> \o ListReviewComments(set \ {first})

\* the variant of DeleteCalls that calls no delete
DeleteCallsNone(list) == <<>>

\* the variant of DeleteCalls that stops at the first delete it has called
RECURSIVE DeleteCallsFirstOnly(_)
DeleteCallsFirstOnly(list) ==
  IF list = <<>> THEN <<>>
  ELSE IF IsPreviousRunComment(Head(list))
         THEN <<[comment_id |-> Head(list).id, state |-> "pending"]>>
         ELSE DeleteCallsFirstOnly(Tail(list))

\* the variant of DeleteCalls that also calls the delete of the comment the
\* platform creates next, which is not in the listing
DeleteCallsAndNext(list) ==
  LET owned == SelectSeq(list, IsPreviousRunComment)
  IN  [i \in 1..Len(owned) |-> [comment_id |-> owned[i].id, state |-> "pending"]]
        \o <<[comment_id |-> Len(list) + 1, state |-> "pending"]>>

\* the calls deleteReviewComment(params) made by the map of lines 65-78, one
\* per element the owner check takes, in the order of the listing
RECURSIVE DeleteCalls(_)
DeleteCalls(list) ==
  IF list = <<>> THEN <<>>
  ELSE (IF IsPreviousRunComment(Head(list))
          THEN <<[comment_id |-> Head(list).id, state |-> "pending"]>>
          ELSE <<>>)
       \o DeleteCalls(Tail(list))

\* the variant of CreateCall that posts against the commit of the first run
CreateCallFirstCommit(reviewArg, comment) ==
  [params |-> [commit_id |-> RunCommit(1), body |-> comment.body,
               line |-> comment.line, path |-> comment.path],
   state |-> "pending", id |-> 0]

\* lines 20-28 and 30: the createReviewComment call of comments[k]
CreateCall(reviewArg, comment) ==
  [params |-> [commit_id |-> reviewArg.data.commit_id, body |-> comment.body,
               line |-> comment.line, path |-> comment.path],
   state |-> "pending", id |-> 0]

Settled(reqs) == \A i \in 1..Len(reqs) : reqs[i].state # "pending"

\* the variant of PromiseAllFulfilled that does not wait for the callbacks
PromiseAllNotAwaited(reqs) == TRUE

\* line 18: await Promise.all(...) continues once every callback has ended,
\* that is once the createReviewComment call of each is fulfilled or caught
PromiseAllFulfilled(reqs) == Settled(reqs)

Init ==
  /\ annotations = <<>>
  /\ changedFiles = <<>>
  /\ \E n \in 0..MaxExisting :
       \E bodies \in [1..n -> ExistingBodies] :
         /\ pullRequest = {[id |-> i, body |-> bodies[i]] : i \in 1..n}
         /\ nextId = n + 1
  /\ review = [data |-> [commit_id |-> "none"]]
  /\ pc = "idle"
  /\ postedReviewComments = [defined |-> FALSE, list |-> <<>>]
  /\ comments = <<>>
  /\ unpostedReviewComments = <<>>
  /\ deleteRequests = <<>>
  /\ createRequests = <<>>
  /\ requests = <<>>
  /\ log = <<>>
  /\ runs = 0
  /\ calls = <<>>
  /\ NoReview

\* postReviewComments(review, annotations, changedFiles) is called and runs
\* to the await of line 12 (lines 47-53).  A run starts when the process of
\* the run before has ended, that is with none of its requests outstanding.
StartRun ==
  /\ pc \in {"idle", "done"}
  /\ Settled(deleteRequests)
  /\ runs < MaxRuns
  /\ \E input \in RunInputs :
       /\ annotations' = input.annotations
       /\ changedFiles' = input.changedFiles
  /\ review' = [data |-> [commit_id |-> RunCommit(runs + 1)]]
  /\ runs' = runs + 1
  /\ pc' = "awaitList"
  /\ postedReviewComments' = [defined |-> FALSE, list |-> <<>>]
  /\ comments' = <<>>
  /\ unpostedReviewComments' = <<>>
  /\ deleteRequests' = <<>>
  /\ createRequests' = <<>>
  /\ calls' = <<>>
  /\ requests' = <<Request("listReviewComments", 0)>>
  /\ log' = <<LogEntry("info", "Retrieving posted review comments.")>>
  /\ UNCHANGED <<pullRequest, nextId>>
  /\ UNCHANGED reviewVars

\* line 15: createReviewComments is called; it has no await, so it runs to
\* its end before postReviewComments is suspended on its promise
CallCreateReviewComments ==
  LET result == createReviewComments(annotations, changedFiles)
  IN  /\ annotations' = result.annotations
      /\ calls' = Append(calls, [before |-> annotations,
                                 changedFiles |-> changedFiles,
                                 after |-> result.annotations,
                                 groupedAnnotations |-> result.groupedAnnotations,
                                 comments |-> result.comments])

\* the listing is fulfilled: lines 12-15 up to the await of line 15.
\* deletePreviousReviewComments runs to its end without being suspended: the
\* map starts every callback, each of which runs to its own await of line 73.
ListFulfilled ==
  /\ pc = "awaitList"
  /\ LET list == ListReviewComments(pullRequest)
         deletes == DeleteCalls(list)
     IN  /\ postedReviewComments' = [defined |-> TRUE, list |-> list]
         /\ deleteRequests' = deletes
         /\ requests' = requests \o [i \in 1..Len(deletes) |->
                                       Request("deleteReviewComment", deletes[i].comment_id)]
         /\ log' = log \o <<LogEntry("header", "Deleting review comments of previous runs."),
                            LogEntry("info", "Deleted review comments of previous runs.")>>
  /\ CallCreateReviewComments
  /\ pc' = "awaitComments"
  /\ UNCHANGED <<changedFiles, review, comments, unpostedReviewComments,
                 createRequests, pullRequest, nextId, runs>>
  /\ UNCHANGED reviewVars

\* the listing is rejected: lines 54-56, then lines 13-15 with undefined
ListRejected ==
  /\ pc = "awaitList"
  /\ postedReviewComments' = [defined |-> FALSE, list |-> <<>>]
  /\ log' = Append(log, LogEntry("error", "Could not retrieve the review comments"))
  /\ CallCreateReviewComments
  /\ pc' = "awaitComments"
  /\ UNCHANGED <<changedFiles, review, comments, unpostedReviewComments,
                 deleteRequests, createRequests, requests, pullRequest, nextId, runs>>
  /\ UNCHANGED reviewVars

\* lines 15-36 after the await of line 15: every callback of comments.map
\* runs to its await of line 30, then Promise.all is awaited
PostComments ==
  /\ pc = "awaitComments"
  /\ LET result == calls[Len(calls)].comments
     IN  /\ comments' = result
         /\ createRequests' = [k \in 1..Len(result) |-> CreateCall(review, result[k])]
         /\ requests' = requests \o [k \in 1..Len(result) |->
                                       Request("createReviewComment", k)]
  /\ unpostedReviewComments' = <<>>
  /\ log' = Append(log, LogEntry("header", "Posting review comments."))
  /\ pc' = "awaitAll"
  /\ UNCHANGED <<annotations, changedFiles, review, postedReviewComments,
                 deleteRequests, pullRequest, nextId, runs, calls>>
  /\ UNCHANGED reviewVars

\* A response reaches the process as a task of the event loop, which runs
\* after the continuation of line 15 (a microtask): no response is handled
\* while postReviewComments is suspended there.
ResponsesHandled == pc # "awaitComments"

\* the platform deletes the comment and the await of line 73 is fulfilled
DeleteFulfilled(i) ==
  /\ ResponsesHandled
  /\ deleteRequests[i].state = "pending"
  /\ \E c \in pullRequest : c.id = deleteRequests[i].comment_id
  /\ pullRequest' = {c \in pullRequest : c.id # deleteRequests[i].comment_id}
  /\ deleteRequests' = [deleteRequests EXCEPT ![i].state = "fulfilled"]
  /\ UNCHANGED <<annotations, changedFiles, review, pc, postedReviewComments, comments,
                 unpostedReviewComments, createRequests, requests, log, nextId, runs, calls>>
  /\ UNCHANGED reviewVars

\* the delete is rejected: lines 74-76
DeleteRejected(i) ==
  /\ ResponsesHandled
  /\ deleteRequests[i].state = "pending"
  /\ deleteRequests' = [deleteRequests EXCEPT ![i].state = "rejected"]
  /\ log' = Append(log, LogEntry("error", "Could not delete review comment"))
  /\ UNCHANGED <<annotations, changedFiles, review, pc, postedReviewComments, comments,
                 unpostedReviewComments, createRequests, requests, pullRequest, nextId,
                 runs, calls>>
  /\ UNCHANGED reviewVars

\* the platform creates the comment and the await of line 30 is fulfilled
CreateFulfilled(k) ==
  /\ pc = "awaitAll"
  /\ createRequests[k].state = "pending"
  /\ pullRequest' = pullRequest \cup {[id |-> nextId, body |-> createRequests[k].params.body]}
  /\ nextId' = nextId + 1
  /\ createRequests' = [createRequests EXCEPT ![k].state = "fulfilled", ![k].id = nextId]
  /\ UNCHANGED <<annotations, changedFiles, review, pc, postedReviewComments, comments,
                 unpostedReviewComments, deleteRequests, requests, log, runs, calls>>
  /\ UNCHANGED reviewVars

\* the create is rejected: lines 31-34
CreateRejected(k) ==
  /\ pc = "awaitAll"
  /\ createRequests[k].state = "pending"
  /\ createRequests' = [createRequests EXCEPT ![k].state = "rejected"]
  /\ unpostedReviewComments' = Append(unpostedReviewComments, k)
  /\ log' = Append(log, LogEntry("debug", "Could not post review comment"))
  /\ UNCHANGED <<annotations, changedFiles, review, pc, postedReviewComments, comments,
                 deleteRequests, requests, pullRequest, nextId, runs, calls>>
  /\ UNCHANGED reviewVars

\* Promise.all of line 18 is fulfilled: lines 37-38
Return ==
  /\ pc = "awaitAll"
  /\ PromiseAllFulfilled(createRequests)
  /\ log' = Append(log, LogEntry("info", "Posted review comments."))
  /\ pc' = "done"
  /\ UNCHANGED <<annotations, changedFiles, review, postedReviewComments, comments,
                 unpostedReviewComments, deleteRequests, createRequests, requests,
                 pullRequest, nextId, runs, calls>>
  /\ UNCHANGED reviewVars

DeleteResponse ==
  \E i \in 1..Len(deleteRequests) : DeleteFulfilled(i) \/ DeleteRejected(i)

CreateResponse ==
  \E k \in 1..Len(createRequests) : CreateFulfilled(k) \/ CreateRejected(k)

Next ==
  \/ StartRun
  \/ ListFulfilled
  \/ ListRejected
  \/ PostComments
  \/ DeleteResponse
  \/ CreateResponse
  \/ Return

Spec == Init /\ [][Next]_vars

\* every request is answered and every continuation that is ready runs
FairSpec ==
  /\ Spec
  /\ WF_vars(ListFulfilled \/ ListRejected)
  /\ WF_vars(PostComments)
  /\ WF_vars(DeleteResponse)
  /\ WF_vars(CreateResponse)
  /\ WF_vars(Return)

(* ------------------------------------------------------------------ *)
(* postReview (src/github/posting/review.ts), as the design describes   *)
(* it and test/github/posting/review.test.ts calls it                   *)
(* ------------------------------------------------------------------ *)
\* the longest list of postable and of unpostable review comments
MaxComments == 2

\* Events.APPROVE and Events.REQUEST_CHANGES
Approve == "APPROVE"
RequestChanges == "REQUEST_CHANGES"

\* the texts of the four summaries, as the tests have them returned
createQualityGateSummary(qualityGateArg) ==
  <<"G", "a", "t", "e", "S", "u", "m", "m", "a", "r", "y", ".", ".", ".", "\n">>

createLinkSummary(url) ==
  <<"L", "i", "n", "k", "S", "u", "m", "m", "a", "r", "y", ".", ".", ".", "\n">>

createUnpostableReviewCommentsSummary(unpostable) ==
  <<"U", "n", "p", "o", "s", "t", "a", "b", "l", "e", "S", "u", "m", "m", "a", "r", "y", ".", ".", ".", "\n">>

createFilesSummary(files) ==
  <<"F", "i", "l", "e", "s", "S", "u", "m", "m", "a", "r", "y", ".", ".", ".", "\n">>

\* the variant of ReviewEvent that approves whatever the quality gate says
ReviewEventApprove(qualityGateArg) == Approve

\* the event of the review: APPROVE when the quality gate passed,
\* REQUEST_CHANGES when it did not
ReviewEvent(qualityGateArg) ==
  IF qualityGateArg.passed THEN Approve ELSE RequestChanges

\* the variant of ReviewCommentsField that attaches the postable comments
\* whatever the event is
ReviewCommentsFieldAlways(qualityGateArg, reviewCommentsArg) ==
  [defined |-> reviewCommentsArg.defined, list |-> reviewCommentsArg.postable]

\* the comments of the review: undefined when approving, the postable
\* review comments when requesting changes, the empty list when there are none
ReviewCommentsField(qualityGateArg, reviewCommentsArg) ==
  IF ReviewEvent(qualityGateArg) = Approve
    THEN [defined |-> FALSE, list |-> <<>>]
    ELSE [defined |-> TRUE,
          list |-> IF reviewCommentsArg.defined THEN reviewCommentsArg.postable ELSE <<>>]

\* the variant of ReviewBody that has the unpostable summary in every body
ReviewBodyWithUnpostable(analysisArg, changedFilesArg, qualityGateArg, reviewCommentsArg) ==
  createQualityGateSummary(qualityGateArg)
    \o (IF analysisArg.explorerUrl = Undefined THEN <<>>
        ELSE createLinkSummary(analysisArg.explorerUrl))
    \o createUnpostableReviewCommentsSummary(reviewCommentsArg.unpostable)
    \o createFilesSummary(changedFilesArg)

\* the body of the review: the summaries in their order, a section that
\* is absent from the input adding nothing
ReviewBody(analysisArg, changedFilesArg, qualityGateArg, reviewCommentsArg) ==
  createQualityGateSummary(qualityGateArg)
    \o (IF analysisArg.explorerUrl = Undefined THEN <<>>
        ELSE createLinkSummary(analysisArg.explorerUrl))
    \o (IF reviewCommentsArg.defined /\ reviewCommentsArg.unpostable # <<>>
          THEN createUnpostableReviewCommentsSummary(reviewCommentsArg.unpostable)
          ELSE <<>>)
    \o createFilesSummary(changedFilesArg)

\* the call octokit.rest.pulls.createReview(params)
CreateReviewCall(analysisArg, changedFilesArg, qualityGateArg, reviewCommentsArg) ==
  [params |-> [event |-> ReviewEvent(qualityGateArg),
               body |-> ReviewBody(analysisArg, changedFilesArg, qualityGateArg,
                                   reviewCommentsArg),
               comments |-> ReviewCommentsField(qualityGateArg, reviewCommentsArg)],
   state |-> "pending"]

\* the review comments the lists passed to postReview are drawn from
ReviewCommentPool ==
  {FormatComment(Annotation(FileA, 1, RuleOne, 1, MsgX)),
   FormatComment(Annotation(FileB, 1, RuleOne, 2, MsgY))}

ReviewCommentLists == UNION {[1..n -> ReviewCommentPool] : n \in 0..MaxComments}

\* the fourth argument of postReview: undefined, or the postable and the
\* unpostable review comments
ReviewCommentsInputs ==
  {[defined |-> FALSE, postable |-> <<>>, unpostable |-> <<>>]}
  \cup {[defined |-> TRUE, postable |-> p, unpostable |-> u] :
          p \in ReviewCommentLists, u \in ReviewCommentLists}

\* postReview(analysis, changedFiles, qualityGate, reviewComments) is about
\* to be called
InitReview ==
  /\ annotations = <<>>
  /\ pullRequest = {}
  /\ Idle
  /\ changedFiles \in {<<>>, <<<<>>>>, <<FileA, FileB>>}
  /\ analysis \in {[explorerUrl |-> Undefined], [explorerUrl |-> <<"u", "r", "l">>]}
  /\ qualityGate \in {[passed |-> TRUE], [passed |-> FALSE]}
  /\ reviewComments \in ReviewCommentsInputs
  /\ reviewCalls = <<>>

\* what postReview does not touch
postVars ==
  <<annotations, changedFiles, review, postedReviewComments, comments,
    unpostedReviewComments, deleteRequests, createRequests, requests, pullRequest,
    nextId, runs, calls, analysis, qualityGate, reviewComments>>

\* postReview is called and runs to the await of createReview
CallPostReview ==
  /\ pc = "idle"
  /\ reviewCalls' = Append(reviewCalls,
                           CreateReviewCall(analysis, changedFiles, qualityGate,
                                            reviewComments))
  /\ pc' = "awaitReview"
  /\ UNCHANGED <<log, postVars>>

\* createReview is fulfilled and postReview returns
ReviewFulfilled ==
  /\ pc = "awaitReview"
  /\ reviewCalls[Len(reviewCalls)].state = "pending"
  /\ reviewCalls' = [reviewCalls EXCEPT ![Len(reviewCalls)].state = "fulfilled"]
  /\ pc' = "done"
  /\ UNCHANGED <<log, postVars>>

\* the variant of ReviewRejected that calls createReview a second time
ReviewRejectedRetry ==
  /\ pc = "awaitReview"
  /\ reviewCalls[Len(reviewCalls)].state = "pending"
  /\ Len(reviewCalls) < 2
  /\ reviewCalls' = Append([reviewCalls EXCEPT ![Len(reviewCalls)].state = "rejected"],
                           CreateReviewCall(analysis, changedFiles, qualityGate,
                                            reviewComments))
  /\ log' = Append(log, LogEntry("error", "Posting the review failed"))
  /\ pc' = "awaitReview"
  /\ UNCHANGED postVars

\* the variant of ReviewRejected that lets the error out of postReview
ReviewRejectedThrows ==
  /\ pc = "awaitReview"
  /\ reviewCalls[Len(reviewCalls)].state = "pending"
  /\ reviewCalls' = [reviewCalls EXCEPT ![Len(reviewCalls)].state = "rejected"]
  /\ pc' = "thrown"
  /\ UNCHANGED <<log, postVars>>

\* createReview fails: the error is caught and logged, and postReview
\* returns
ReviewRejected ==
  /\ pc = "awaitReview"
  /\ reviewCalls[Len(reviewCalls)].state = "pending"
  /\ reviewCalls' = [reviewCalls EXCEPT ![Len(reviewCalls)].state = "rejected"]
  /\ log' = Append(log, LogEntry("error", "Posting the review failed"))
  /\ pc' = "done"
  /\ UNCHANGED postVars

NextReview ==
  \/ CallPostReview
  \/ ReviewFulfilled
  \/ ReviewRejected

SpecReview == InitReview /\ [][NextReview]_vars

(* ------------------------------------------------------------------ *)
(* Notions of the specification the properties are stated with          *)
(* ------------------------------------------------------------------ *)
\* the ownership marker of the data model
TicsMarker ==
  <<":", "w", "a", "r", "n", "i", "n", "g", ":", " ", "*", "*", "T", "i", "C", "S", ":">>

StartsWith(s, prefix) ==
  /\ Len(s) >= Len(prefix)
  /\ SubSeq(s, 1, Len(prefix)) = prefix

\* a posted comment is owned by the tool
Owned(comment) == StartsWith(comment.body, TicsMarker)

\* c occurs in s as a substring
Contains(s, c) == \E i \in 0..(Len(s) - Len(c)) : SubSeq(s, i + 1, i + Len(c)) = c

\* the annotation is in scope of the changed files
InScope(files, annotation) ==
  \E i \in 1..Len(files) : Contains(annotation.fullPath, files[i])

\* the duplicate key of the data model
DuplicateKey(a) == <<a.fullPath, a.type, a.line, a.rule, a.level, a.category>>

\* sum of the counts of the in-scope annotations of list with the key
RECURSIVE SumOfCounts(_, _, _)
SumOfCounts(list, files, key) ==
  IF list = <<>> THEN 0
  ELSE (IF InScope(files, Head(list)) /\ DuplicateKey(Head(list)) = key
          THEN Head(list).count ELSE 0)
       + SumOfCounts(Tail(list), files, key)

\* the latest call of the grouper
LastCall == calls[Len(calls)]

Pending(reqs) == {i \in 1..Len(reqs) : reqs[i].state = "pending"}

\* the comments the creates of this run have put on the pull request
CreatedByRun ==
  {[id |-> createRequests[k].id, body |-> createRequests[k].params.body] :
     k \in {j \in 1..Len(createRequests) : createRequests[j].state = "fulfilled"}}

(* ------------------------------------------------------------------ *)
(* C1                                                                   *)
(* ------------------------------------------------------------------ *)
\* C1: every delete request of a run is for a comment of the listing whose
\* body starts with the marker, and a listed comment whose body does not
\* start with the marker is still on the pull request, whatever the other
\* requests did.
C1_OnlyOwnedCommentsDeleted ==
  /\ \A i \in 1..Len(deleteRequests) :
       \E j \in 1..Len(postedReviewComments.list) :
         /\ postedReviewComments.list[j].id = deleteRequests[i].comment_id
         /\ Owned(postedReviewComments.list[j])
  /\ \A i \in 1..Len(requests) :
       requests[i].op = "deleteReviewComment" =>
         \E j \in 1..Len(postedReviewComments.list) :
           /\ postedReviewComments.list[j].id = requests[i].arg
           /\ Owned(postedReviewComments.list[j])
  /\ \A j \in 1..Len(postedReviewComments.list) :
       ~Owned(postedReviewComments.list[j]) => postedReviewComments.list[j] \in pullRequest

\* a run that listed a comment without the marker and has deleted an owned one
C1_Witness ==
  /\ \E j \in 1..Len(postedReviewComments.list) : ~Owned(postedReviewComments.list[j])
  /\ \E i \in 1..Len(deleteRequests) : deleteRequests[i].state = "fulfilled"
  /\ pc = "done"

(* ------------------------------------------------------------------ *)
(* C2                                                                   *)
(* ------------------------------------------------------------------ *)
\* C2: every candidate of the grouper carries the sum of the counts of the
\* in-scope input annotations with its duplicate key.
C2_CountIsSumOverKey ==
  calls # <<>> =>
    \A k \in 1..Len(LastCall.groupedAnnotations) :
      LastCall.groupedAnnotations[k].count
        = SumOfCounts(LastCall.before, LastCall.changedFiles,
                      DuplicateKey(LastCall.groupedAnnotations[k]))

(* ------------------------------------------------------------------ *)
(* C3                                                                   *)
(* ------------------------------------------------------------------ *)
\* the run has returned and every delete it called has been answered
RunEnded == pc = "done" /\ Pending(deleteRequests) = {}

DeleteFailed(id) ==
  \E i \in 1..Len(deleteRequests) :
    deleteRequests[i].comment_id = id /\ deleteRequests[i].state = "rejected"

\* C3: every run comes to its end with all its deletes answered; at that
\* point, if the listing succeeded, every owned comment still on the pull
\* request was created by this run or is one whose delete failed, so that in
\* a run whose deletes all succeed the owned comments are exactly those the
\* run created.
C3_OwnedCommentsReplaced ==
  /\ [](pc = "awaitList" => <>RunEnded)
  /\ []((RunEnded /\ postedReviewComments.defined) =>
          /\ \A c \in pullRequest :
               Owned(c) => (c \in CreatedByRun \/ DeleteFailed(c.id))
          /\ CreatedByRun \subseteq {c \in pullRequest : Owned(c)}
          /\ (\A i \in 1..Len(deleteRequests) : deleteRequests[i].state = "fulfilled")
               => {c \in pullRequest : Owned(c)} = CreatedByRun)

\* the second run has ended, has deleted the comments of the first and
\* created its own
C3_Witness ==
  /\ runs = 2
  /\ pc = "done"
  /\ postedReviewComments.defined
  /\ deleteRequests # <<>>
  /\ \A i \in 1..Len(deleteRequests) : deleteRequests[i].state = "fulfilled"
  /\ CreatedByRun # {}
  /\ {c \in pullRequest : Owned(c)} = CreatedByRun

(* ------------------------------------------------------------------ *)
(* C4                                                                   *)
(* ------------------------------------------------------------------ *)
\* C4: when postReviewComments returns, every create has been answered and
\* the returned list holds exactly the candidates whose create was rejected,
\* each once; and a run whose creates are all answered can return.
C4_UnpostedAreTheRejected ==
  /\ pc = "done" =>
       /\ Pending(createRequests) = {}
       /\ Len(createRequests) = Len(comments)
       /\ {unpostedReviewComments[i] : i \in 1..Len(unpostedReviewComments)}
            = {k \in 1..Len(createRequests) : createRequests[k].state = "rejected"}
       /\ \A i, j \in 1..Len(unpostedReviewComments) :
            unpostedReviewComments[i] = unpostedReviewComments[j] => i = j
  /\ (pc = "awaitAll" /\ Pending(createRequests) = {}) => ENABLED Return

\* a run of two candidates has returned with one of them unposted
C4_Witness ==
  /\ pc = "done"
  /\ Len(comments) = 2
  /\ Len(unpostedReviewComments) = 1
  /\ \E k \in 1..2 : createRequests[k].state = "fulfilled"

(* ------------------------------------------------------------------ *)
(* C5                                                                   *)
(* ------------------------------------------------------------------ *)
\* C5: in the order of the calls of a run, the listing and every delete
\* come before the first create, and once a create has been called every
\* owned comment of the listing has had its delete called.
C5_PurgeCalledBeforePosting ==
  /\ \A i, j \in 1..Len(requests) :
       (requests[i].op = "createReviewComment" /\ requests[j].op # "createReviewComment")
         => j < i
  /\ (\E i \in 1..Len(requests) : requests[i].op = "createReviewComment") =>
       /\ requests[1].op = "listReviewComments"
       /\ \A j \in 1..Len(postedReviewComments.list) :
            Owned(postedReviewComments.list[j]) =>
              \E i \in 1..Len(requests) :
                /\ requests[i].op = "deleteReviewComment"
                /\ requests[i].arg = postedReviewComments.list[j].id

\* a run that has called a delete and then a create
C5_Witness ==
  \E i, j \in 1..Len(requests) :
    /\ requests[i].op = "deleteReviewComment"
    /\ requests[j].op = "createReviewComment"

(* ------------------------------------------------------------------ *)
(* C6                                                                   *)
(* ------------------------------------------------------------------ *)
\* C6: when postReviewComments has returned, and when 'Deleted review
\* comments of previous runs.' has been logged, no delete of the run is
\* still pending.
C6_NoDeletePendingAfterPurge ==
  (\/ pc = "done"
   \/ \E i \in 1..Len(log) : log[i].message = "Deleted review comments of previous runs.")
    => Pending(deleteRequests) = {}

(* ------------------------------------------------------------------ *)
(* C7                                                                   *)
(* ------------------------------------------------------------------ *)
\* the annotation with its count changed, and with every field but the
\* path changed
OtherFields(a) ==
  {[a EXCEPT !.count = @ + 1],
   [a EXCEPT !.count = @ + 2, !.line = @ + 1, !.rule = RuleTwo, !.msg = <<"z">>,
             !.level = <<"9">>, !.category = <<"D">>, !.type = <<"U">>]}

\* C7: an annotation whose fullPath contains no changed file has no
\* candidate in the output, and the output is the same whatever its count
\* and other fields are; with no changed files or no annotations the output
\* is empty.
C7_OutOfScopeNeverReported ==
  calls # <<>> =>
    /\ \A i \in 1..Len(LastCall.before) :
         ~InScope(LastCall.changedFiles, LastCall.before[i]) =>
           /\ \A k \in 1..Len(LastCall.groupedAnnotations) :
                LastCall.groupedAnnotations[k].fullPath # LastCall.before[i].fullPath
           /\ \A k \in 1..Len(LastCall.comments) :
                LastCall.comments[k].path
                  # Replace(LastCall.before[i].fullPath, HiePrefix, <<>>)
           /\ \A other \in OtherFields(LastCall.before[i]) :
                createReviewComments([LastCall.before EXCEPT ![i] = other],
                                     LastCall.changedFiles).comments
                  = LastCall.comments
    /\ (LastCall.before = <<>> \/ LastCall.changedFiles = <<>>) => LastCall.comments = <<>>

\* a call with an annotation out of scope after one in scope, which is reported
C7_Witness ==
  /\ calls # <<>>
  /\ LastCall.comments # <<>>
  /\ \E i \in 2..Len(LastCall.before) :
       /\ ~InScope(LastCall.changedFiles, LastCall.before[i])
       /\ InScope(LastCall.changedFiles, LastCall.before[i - 1])

(* ------------------------------------------------------------------ *)
(* C8                                                                   *)
(* ------------------------------------------------------------------ *)
\* C8: every annotation whose fullPath contains an entry of changedFiles,
\* the empty string included, has a candidate with its duplicate key in the
\* output.
C8_InScopeIsReported ==
  calls # <<>> =>
    \A i \in 1..Len(LastCall.before) :
      InScope(LastCall.changedFiles, LastCall.before[i]) =>
        \E k \in 1..Len(LastCall.groupedAnnotations) :
          DuplicateKey(LastCall.groupedAnnotations[k]) = DuplicateKey(LastCall.before[i])

(* ------------------------------------------------------------------ *)
(* C9                                                                   *)
(* ------------------------------------------------------------------ *)
\* C9: two calls of the grouper on the same list and the same changed files
\* return the same candidates.
C9_SecondCallSameCandidates ==
  Len(calls) >= 2 => calls[2].comments = calls[1].comments

(* ------------------------------------------------------------------ *)
(* C10                                                                  *)
(* ------------------------------------------------------------------ *)
\* C10: after a call of the grouper every element of the input list has
\* the field values it had before the call, and no request has been made.
C10_InputsUnchanged ==
  calls # <<>> => (LastCall.after = LastCall.before /\ requests = <<>>)

(* ------------------------------------------------------------------ *)
(* C11                                                                  *)
(* ------------------------------------------------------------------ *)
\* the listing of this run was rejected and the run has gone on
ListingFailed ==
  pc \in {"awaitComments", "awaitAll", "done"} /\ ~postedReviewComments.defined

\* the positions of seq that hold x
Positions(seq, x) == {i \in 1..Len(seq) : seq[i] = x}

\* every candidate of the grouper gets its create request: while the run
\* waits for the candidates the posting step can be taken, and once it is
\* taken there is one create call per candidate, called once
CandidatesGetCreate ==
  /\ pc = "awaitComments" => ENABLED PostComments
  /\ pc \in {"awaitAll", "done"} =>
       /\ Len(createRequests) = Len(LastCall.comments)
       /\ \A k \in 1..Len(LastCall.comments) :
            /\ createRequests[k].params.body = LastCall.comments[k].body
            /\ Cardinality(Positions(requests, Request("createReviewComment", k))) = 1

\* C11: if the listing fails, the failure is logged, no delete is requested
\* and every candidate gets its create request; if a delete fails, each
\* failure is logged, every owned comment of the listing has exactly one
\* delete request and every candidate gets its create request.
C11_PurgeFaultsIsolated ==
  /\ ListingFailed =>
       /\ Cardinality(Positions(log, LogEntry("error", "Could not retrieve the review comments"))) = 1
       /\ deleteRequests = <<>>
       /\ \A i \in 1..Len(requests) : requests[i].op # "deleteReviewComment"
       /\ CandidatesGetCreate
  /\ (\E i \in 1..Len(deleteRequests) : deleteRequests[i].state = "rejected") =>
       /\ Cardinality(Positions(log, LogEntry("error", "Could not delete review comment")))
            = Cardinality({i \in 1..Len(deleteRequests) : deleteRequests[i].state = "rejected"})
       /\ \A j \in 1..Len(postedReviewComments.list) :
            Owned(postedReviewComments.list[j]) =>
              /\ Cardinality({i \in 1..Len(deleteRequests) :
                                deleteRequests[i].comment_id = postedReviewComments.list[j].id}) = 1
              /\ Cardinality(Positions(requests, Request("deleteReviewComment",
                                                          postedReviewComments.list[j].id))) = 1
       /\ CandidatesGetCreate

\* a run that listed two owned comments, had the delete of one rejected and
\* of another fulfilled, and has called a create
C11_Witness ==
  /\ \E i, j \in 1..Len(deleteRequests) :
       /\ deleteRequests[i].state = "rejected"
       /\ deleteRequests[j].state = "fulfilled"
  /\ createRequests # <<>>
  /\ pc = "done"

\* a run whose listing failed and that has called its creates
C11_WitnessListing ==
  /\ ListingFailed
  /\ pc = "done"
  /\ Len(createRequests) = 2

(* ------------------------------------------------------------------ *)
(* C12                                                                  *)
(* ------------------------------------------------------------------ *)
\* a is before b in lexicographic order
StrLess(a, b) == StrGreater(b, a)

\* the position in the input of the first in-scope annotation with the
\* duplicate key of the candidate at position k of the output
FirstSeen(call, k) ==
  CHOOSE i \in 1..Len(call.before) :
    /\ InScope(call.changedFiles, call.before[i])
    /\ DuplicateKey(call.before[i]) = DuplicateKey(call.groupedAnnotations[k])
    /\ \A j \in 1..(i - 1) :
         ~(/\ InScope(call.changedFiles, call.before[j])
           /\ DuplicateKey(call.before[j]) = DuplicateKey(call.groupedAnnotations[k]))

\* C12: of two candidates the one with the smaller path comes first; with
\* equal paths the one with the smaller line comes first; candidates equal
\* in both are in first-seen input order.
C12_SortedByPath ==
  calls # <<>> =>
    \A k, l \in 1..Len(LastCall.comments) :
      /\ StrLess(LastCall.comments[k].path, LastCall.comments[l].path) => k < l
      /\ (/\ LastCall.comments[k].path = LastCall.comments[l].path
          /\ LastCall.comments[k].line < LastCall.comments[l].line) => k < l
      /\ (/\ LastCall.comments[k].path = LastCall.comments[l].path
          /\ LastCall.comments[k].line = LastCall.comments[l].line
          /\ FirstSeen(LastCall, k) < FirstSeen(LastCall, l)) => k < l

\* every candidate of the call is of a file of the configured project
AllOfConfiguredProject(call) ==
  \A k \in 1..Len(call.groupedAnnotations) :
    StartsWith(call.groupedAnnotations[k].fullPath, HiePrefix)

\* C12 amended: of two candidates the one of the annotation with the smaller
\* fullPath comes first; with equal fullPaths the one with the smaller line
\* comes first; candidates equal in both are in first-seen input order; and
\* when every candidate is of a file of the configured project, the
\* candidates are in the order of path, then line, then first seen.
C12_SortedByFullPath ==
  calls # <<>> =>
    /\ Len(LastCall.comments) = Len(LastCall.groupedAnnotations)
    /\ \A k, l \in 1..Len(LastCall.groupedAnnotations) :
         /\ StrLess(LastCall.groupedAnnotations[k].fullPath,
                    LastCall.groupedAnnotations[l].fullPath) => k < l
         /\ (/\ LastCall.groupedAnnotations[k].fullPath = LastCall.groupedAnnotations[l].fullPath
             /\ LastCall.comments[k].line < LastCall.comments[l].line) => k < l
         /\ (/\ LastCall.groupedAnnotations[k].fullPath = LastCall.groupedAnnotations[l].fullPath
             /\ LastCall.comments[k].line = LastCall.comments[l].line
             /\ FirstSeen(LastCall, k) < FirstSeen(LastCall, l)) => k < l
    /\ AllOfConfiguredProject(LastCall) =>
         \A k, l \in 1..Len(LastCall.comments) :
           /\ StrLess(LastCall.comments[k].path, LastCall.comments[l].path) => k < l
           /\ (/\ LastCall.comments[k].path = LastCall.comments[l].path
               /\ LastCall.comments[k].line < LastCall.comments[l].line) => k < l
           /\ (/\ LastCall.comments[k].path = LastCall.comments[l].path
               /\ LastCall.comments[k].line = LastCall.comments[l].line
               /\ FirstSeen(LastCall, k) < FirstSeen(LastCall, l)) => k < l

\* a call whose three candidates were moved by the sort: the first of the
\* input is the last of the output, and the two before it are equal in
\* fullPath and line
C12_Witness ==
  /\ calls # <<>>
  /\ Len(LastCall.comments) = 3
  /\ FirstSeen(LastCall, 3) = 1
  /\ LastCall.groupedAnnotations[1].fullPath = LastCall.groupedAnnotations[2].fullPath
  /\ LastCall.groupedAnnotations[1].line = LastCall.groupedAnnotations[2].line
  /\ FirstSeen(LastCall, 1) < FirstSeen(LastCall, 2)

(* ------------------------------------------------------------------ *)
(* C13                                                                  *)
(* ------------------------------------------------------------------ *)
\* the start of a body that reports the message msg for the type type
BodyStart(type, msg) ==
  TicsMarker \o <<" ">> \o type
    \o <<" ", "v", "i", "o", "l", "a", "t", "i", "o", "n", ":", " ">>
    \o msg \o <<"*", "*", " ", "\r", "\n">>

\* C13: no two candidates of a call have the same duplicate key, whatever
\* the msg of the annotations, and the body of each candidate reports the
\* msg of the first in-scope annotation of the input with its key.
C13_OneCandidatePerKey ==
  calls # <<>> =>
    /\ Len(LastCall.comments) = Len(LastCall.groupedAnnotations)
    /\ \A k, l \in 1..Len(LastCall.groupedAnnotations) :
         DuplicateKey(LastCall.groupedAnnotations[k]) = DuplicateKey(LastCall.groupedAnnotations[l])
           => k = l
    /\ \A k \in 1..Len(LastCall.comments) :
         StartsWith(LastCall.comments[k].body,
                    BodyStart(LastCall.groupedAnnotations[k].type,
                              LastCall.before[FirstSeen(LastCall, k)].msg))

\* a call on two in-scope annotations with the same key and different msg,
\* followed in the input by an annotation that has a candidate of its own
C13_Witness ==
  /\ calls # <<>>
  /\ Len(LastCall.comments) = 2
  /\ \E i, j \in 1..Len(LastCall.before) :
       /\ i < j
       /\ InScope(LastCall.changedFiles, LastCall.before[i])
       /\ DuplicateKey(LastCall.before[i]) = DuplicateKey(LastCall.before[j])
       /\ LastCall.before[i].msg # LastCall.before[j].msg

(* ------------------------------------------------------------------ *)
(* C14                                                                  *)
(* ------------------------------------------------------------------ *)
\* C14: the event of every review submitted is APPROVE exactly when the
\* quality gate passed and REQUEST_CHANGES exactly when it did not,
\* whatever the analysis, the changed files and the review comments are.
C14_EventFollowsQualityGate ==
  \A i \in 1..Len(reviewCalls) :
    /\ reviewCalls[i].params.event = Approve <=> qualityGate.passed
    /\ reviewCalls[i].params.event = RequestChanges <=> ~qualityGate.passed

\* a review submitted for a quality gate that passed, with comments that
\* were posted and comments that were not
C14_Witness ==
  /\ reviewCalls # <<>>
  /\ qualityGate.passed
  /\ reviewComments.postable # <<>>
  /\ reviewComments.unpostable # <<>>
  /\ reviewCalls[1].params.event = Approve

(* ------------------------------------------------------------------ *)
(* C15                                                                  *)
(* ------------------------------------------------------------------ *)
\* C15: a call of postReview makes its createReview call, and from then on
\* there is exactly one createReview call, whatever the inputs and whether
\* the call is fulfilled or rejected.
C15_OneReviewCall ==
  /\ pc = "idle" => (reviewCalls = <<>> /\ ENABLED CallPostReview)
  /\ pc # "idle" => Len(reviewCalls) = 1

\* postReview has ended after its createReview call, made with two postable
\* comments, was rejected
C15_Witness ==
  /\ pc = "done"
  /\ Len(reviewComments.postable) = 2
  /\ reviewCalls[1].state = "rejected"

(* ------------------------------------------------------------------ *)
(* C16                                                                  *)
(* ------------------------------------------------------------------ *)
\* the error-level entries of the log
ErrorEntries == {i \in 1..Len(log) : log[i].level = "error"}

\* C16: when the createReview call has failed, postReview has returned
\* normally, the log has exactly one error entry and no other createReview
\* call has been made; without a failure the log has no error entry.
C16_FailureLoggedAndSwallowed ==
  /\ (\E i \in 1..Len(reviewCalls) : reviewCalls[i].state = "rejected") =>
       /\ pc = "done"
       /\ Cardinality(ErrorEntries) = 1
       /\ Len(reviewCalls) = 1
  /\ (\A i \in 1..Len(reviewCalls) : reviewCalls[i].state # "rejected") =>
       ErrorEntries = {}

\* the createReview call of a review that requests changes has failed
C16_Witness ==
  /\ reviewCalls # <<>>
  /\ reviewCalls[1].state = "rejected"
  /\ ~qualityGate.passed

(* ------------------------------------------------------------------ *)
(* C17                                                                  *)
(* ------------------------------------------------------------------ *)
\* C17: a review that requests changes carries a comments list, which is the
\* list of the postable review comments and the empty list when there are
\* none; a review that approves carries no comments field, even when there
\* are postable review comments.
C17_CommentsOnlyWhenRequestingChanges ==
  \A i \in 1..Len(reviewCalls) :
    /\ reviewCalls[i].params.event = RequestChanges =>
         /\ reviewCalls[i].params.comments.defined
         /\ reviewCalls[i].params.comments.list = reviewComments.postable
    /\ reviewCalls[i].params.event = Approve =>
         ~reviewCalls[i].params.comments.defined

\* an approving review submitted while there are postable review comments
C17_Witness ==
  /\ reviewCalls # <<>>
  /\ reviewCalls[1].params.event = Approve
  /\ Len(reviewComments.postable) = 1
  /\ reviewComments.unpostable = <<>>

(* ------------------------------------------------------------------ *)
(* C18                                                                  *)
(* ------------------------------------------------------------------ *)
\* the text is a part of the body that starts after the first n characters
SectionAt(body, text, n) ==
  /\ Len(body) >= n + Len(text)
  /\ SubSeq(body, n + 1, n + Len(text)) = text

\* C18: the body of every review submitted is the quality-gate summary, then
\* the link summary or nothing, then the unpostable summary exactly when
\* there is an unpostable review comment, then the files summary, and
\* nothing else.
C18_BodyInFixedOrder ==
  \A i \in 1..Len(reviewCalls) :
    LET body == reviewCalls[i].params.body
        gate == createQualityGateSummary(qualityGate)
        link == createLinkSummary(analysis.explorerUrl)
        unpostable == createUnpostableReviewCommentsSummary(reviewComments.unpostable)
        files == createFilesSummary(changedFiles)
        hasUnpostable == reviewComments.unpostable # <<>>
        afterGate == Len(gate)
        afterLink == IF SectionAt(body, link, afterGate)
                       THEN afterGate + Len(link) ELSE afterGate
        afterUnpostable == IF hasUnpostable THEN afterLink + Len(unpostable) ELSE afterLink
    IN  /\ SectionAt(body, gate, 0)
        /\ hasUnpostable => SectionAt(body, unpostable, afterLink)
        /\ Contains(body, unpostable) <=> hasUnpostable
        /\ SectionAt(body, files, afterUnpostable)
        /\ Len(body) = afterUnpostable + Len(files)

\* a review submitted with a link and an unpostable review comment, and so
\* with all four summaries
C18_Witness ==
  /\ reviewCalls # <<>>
  /\ analysis.explorerUrl # Undefined
  /\ reviewComments.unpostable # <<>>
  /\ Contains(reviewCalls[1].params.body,
              createUnpostableReviewCommentsSummary(reviewComments.unpostable))

(* ------------------------------------------------------------------ *)
(* C19                                                                  *)
(* ------------------------------------------------------------------ *)
\* C19: before the posting step of a run no create has been called; from
\* the posting step on, whatever the answers are, each candidate of the
\* grouper has exactly one create call, which carries the commit_id of the
\* review passed in and the body, path and line of the candidate.
C19_OneCreatePerCandidate ==
  /\ pc \in {"idle", "awaitList", "awaitComments"} =>
       /\ createRequests = <<>>
       /\ \A i \in 1..Len(requests) : requests[i].op # "createReviewComment"
  /\ pc \in {"awaitAll", "done"} =>
       /\ Len(createRequests) = Len(LastCall.comments)
       /\ Cardinality({i \in 1..Len(requests) : requests[i].op = "createReviewComment"})
            = Len(LastCall.comments)
       /\ \A k \in 1..Len(LastCall.comments) :
            /\ Cardinality(Positions(requests, Request("createReviewComment", k))) = 1
            /\ createRequests[k].params.commit_id = review.data.commit_id
            /\ createRequests[k].params.body = LastCall.comments[k].body
            /\ createRequests[k].params.path = LastCall.comments[k].path
            /\ createRequests[k].params.line = LastCall.comments[k].line

\* the second run has returned with one of its two creates rejected and the
\* other fulfilled, both against the commit of its review
C19_Witness ==
  /\ runs = 2
  /\ pc = "done"
  /\ Len(createRequests) = 2
  /\ createRequests[1].state = "rejected"
  /\ createRequests[2].state = "fulfilled"
  /\ createRequests[1].params.commit_id = RunCommit(2)
  /\ createRequests[1].params.path # createRequests[2].params.path

(* ------------------------------------------------------------------ *)
(* C20                                                                  *)
(* ------------------------------------------------------------------ *)
\* C20: the body of every candidate of a call of the grouper starts with
\* the ownership marker, whatever the annotation and its count, so that the
\* purge takes a posted comment with that body for one of its own and calls
\* its delete.
C20_CandidatesCarryMarker ==
  calls # <<>> =>
    \A k \in 1..Len(LastCall.comments) :
      /\ StartsWith(LastCall.comments[k].body, TicsMarker)
      /\ IsPreviousRunComment([id |-> k, body |-> LastCall.comments[k].body])
      /\ DeleteCalls(<<[id |-> k, body |-> LastCall.comments[k].body]>>)
           = <<[comment_id |-> k, state |-> "pending"]>>

\* a call with a candidate of count 1 and a candidate of a greater count
C20_Witness ==
  /\ calls # <<>>
  /\ \E k, l \in 1..Len(LastCall.groupedAnnotations) :
       /\ LastCall.groupedAnnotations[k].count = 1
       /\ LastCall.groupedAnnotations[l].count > 1
       /\ Contains(LastCall.comments[l].body, <<"x", ")", " ">>)

(* ------------------------------------------------------------------ *)
(* C21                                                                  *)
(* ------------------------------------------------------------------ *)
\* the ids of the comments the creates of this run have put on the pull
\* request
CreatedIds ==
  {createRequests[k].id :
     k \in {j \in 1..Len(createRequests) : createRequests[j].state = "fulfilled"}}

\* C21: in every state of a run, whatever the order of the answers to its
\* deletes and creates, no delete of the run is for a comment the run has
\* created: every delete is for a comment of the listing, and every comment
\* the run has created is still on the pull request.
C21_OwnCommentsNeverDeleted ==
  createRequests # <<>> =>
    LET created == CreatedIds
        deleted == {deleteRequests[i].comment_id : i \in 1..Len(deleteRequests)}
        called == {requests[i].arg :
                     i \in {j \in 1..Len(requests) : requests[j].op = "deleteReviewComment"}}
        listed == {postedReviewComments.list[j].id : j \in 1..Len(postedReviewComments.list)}
    IN  /\ deleted \cap created = {}
        /\ called \cap created = {}
        /\ deleted \subseteq listed
        /\ called \subseteq listed
        /\ CreatedByRun \subseteq pullRequest

\* a run in which a create has been fulfilled while one delete has been
\* fulfilled and another is still outstanding
C21_Witness ==
  /\ CreatedIds # {}
  /\ \E i, j \in 1..Len(deleteRequests) :
       /\ deleteRequests[i].state = "fulfilled"
       /\ deleteRequests[j].state = "pending"

====
